---- MODULE Spec2Model ----
(***************************************************************************)
(* The website cloner of backend/app/main.py as a state machine: the three *)
(* extraction calls to the scraping service, the fallback screenshot, the  *)
(* assembly of the chat-completion request, the server-sent-event parser   *)
(* of stream_clone_html_enhanced, and the three endpoints /analyze, /clone *)
(* (incremental relay) and /clone-complete (collect, then answer).         *)
(***************************************************************************)
EXTENDS Naturals, Sequences, FiniteSets, TLC

\* Longest upstream transcript (lines sent by the model provider) explored.
MaxLines == 3
\* Longest caller-supplied add_script_tag / add_style_tag list explored.
MaxTags == 2

(***************************************************************************)
(* Python values.  Every value carries its type tag, so that subscripting, *)
(* .get and len behave per type as the interpreter does.                   *)
(***************************************************************************)
PyNone == [t |-> "None"]
PyStr(s) == [t |-> "str", s |-> s]
PyInt(n) == [t |-> "int", n |-> n]
PyList(items) == [t |-> "list", items |-> items]
PyDict(fields) == [t |-> "dict", fields |-> fields]
\* A local variable not assigned yet.
Unset == [t |-> "unset"]

\* Exceptions: class name, HTTPException's status_code, and the message.
NoExc == [type |-> "none", status_code |-> 0, detail |-> ""]
Exc(type, detail) == [type |-> type, status_code |-> 0, detail |-> detail]
HTTPException(status_code, detail) ==
    [type |-> "HTTPException", status_code |-> status_code, detail |-> detail]

\* The outcome of evaluating an expression: a value, or a raised exception.
Ok(v) == [ok |-> TRUE, val |-> v, exc |-> NoExc]
Raises(e) == [ok |-> FALSE, val |-> PyNone, exc |-> e]

\* str(exc).  HTTPException formats itself as "<status_code>: <detail>".
StrExc(e) ==
    IF e.type = "HTTPException"
    THEN ToString(e.status_code) \o ": " \o e.detail
    ELSE e.detail

\* Classes that derive from BaseException only: `except Exception` lets them pass.
BaseExceptionOnly == {"GeneratorExit", "KeyboardInterrupt", "SystemExit"}

\* obj[key] for a string key.
Subscript(obj, key) ==
    CASE obj.t = "dict" ->
            IF key \in DOMAIN obj.fields
            THEN Ok(obj.fields[key])
            ELSE Raises(Exc("KeyError", "'" \o key \o "'"))
      [] obj.t = "list" ->
            Raises(Exc("TypeError", "list indices must be integers or slices, not str"))
      [] obj.t = "str" ->
            Raises(Exc("TypeError", "string indices must be integers"))
      [] OTHER ->
            Raises(Exc("TypeError", "'" \o obj.t \o "' object is not subscriptable"))

\* obj[0].  The keys of a decoded JSON object are strings, so 0 is never one.
\* A one-character slice of a str is a str again; only its type is used later.
Index0(obj) ==
    CASE obj.t = "list" ->
            IF Len(obj.items) > 0
            THEN Ok(obj.items[1])
            ELSE Raises(Exc("IndexError", "list index out of range"))
      [] obj.t = "dict" -> Raises(Exc("KeyError", "0"))
      [] obj.t = "str" ->
            IF obj.s # ""
            THEN Ok(obj)
            ELSE Raises(Exc("IndexError", "string index out of range"))
      [] OTHER ->
            Raises(Exc("TypeError", "'" \o obj.t \o "' object is not subscriptable"))

\* obj.get(key, default)
Get(obj, key, default) ==
    IF obj.t = "dict"
    THEN Ok(IF key \in DOMAIN obj.fields THEN obj.fields[key] ELSE default)
    ELSE Raises(Exc("AttributeError", "'" \o obj.t \o "' object has no attribute 'get'"))

\* len(obj)
PyLen(obj) ==
    CASE obj.t = "list" -> Ok(PyInt(Len(obj.items)))
      [] obj.t = "dict" -> Ok(PyInt(Cardinality(DOMAIN obj.fields)))
      [] obj.t = "str" -> Ok(PyInt(Len(obj.s)))
      [] OTHER -> Raises(Exc("TypeError", "object of type '" \o obj.t \o "' has no len()"))

(***************************************************************************)
(* The event stream of the model provider.  A raw line is the sequence of  *)
(* its tokens: the marker "data: ", whitespace, and a payload text.        *)
(***************************************************************************)
DataMarker == "data: "
Whitespace == {" ", "\t"}
\* A byte sequence that is not valid UTF-8.
BadBytes == "\\xff\\xfe"

TextA == "{\"choices\":[{\"delta\":{\"content\":\"A\"}}]}"
TextB == "{\"choices\":[{\"delta\":{\"content\":\"B\"}}]}"
TextNoChoices == "{}"
TextEmptyChoices == "{\"choices\":[]}"
TextNoDelta == "{\"choices\":[{}]}"
TextNoContent == "{\"choices\":[{\"delta\":{\"role\":\"assistant\"}}]}"
TextNumber == "5"
TextNotJson == "not-json"

Chunk(delta) == PyDict([choices |-> PyList(<<PyDict([delta |-> delta])>>)])

\* json.loads on the payload texts that occur; any other text is not JSON.
json_loads(text) ==
    CASE text = TextA -> Ok(Chunk(PyDict([content |-> PyStr("A")])))
      [] text = TextB -> Ok(Chunk(PyDict([content |-> PyStr("B")])))
      [] text = TextNoChoices -> Ok(PyDict(<<>>))
      [] text = TextEmptyChoices -> Ok(PyDict([choices |-> PyList(<<>>)]))
      [] text = TextNoDelta -> Ok(PyDict([choices |-> PyList(<<PyDict(<<>>)>>)]))
      [] text = TextNoContent -> Ok(Chunk(PyDict([role |-> PyStr("assistant")])))
      [] text = TextNumber -> Ok(PyInt(5))
      [] OTHER -> Raises(Exc("JSONDecodeError", "Expecting value: line 1 column 1 (char 0)"))

\* raw.decode("utf-8")
Decode(raw) ==
    IF \E i \in 1..Len(raw) : raw[i] = BadBytes
    THEN Raises(Exc("UnicodeDecodeError", "'utf-8' codec can't decode byte 0xff"))
    ELSE Ok(raw)

\* line.startswith("data: ")
StartsWithData(line) == Len(line) > 0 /\ line[1] = DataMarker

RECURSIVE LStrip(_)
LStrip(toks) ==
    IF toks # <<>> /\ Head(toks) \in Whitespace THEN LStrip(Tail(toks)) ELSE toks

RECURSIVE RStrip(_)
RStrip(toks) ==
    IF toks # <<>> /\ toks[Len(toks)] \in Whitespace
    THEN RStrip(SubSeq(toks, 1, Len(toks) - 1))
    ELSE toks

\* line[6:].strip(), as one text ("" when nothing is left, the tokens otherwise)
RECURSIVE Concat(_)
Concat(toks) == IF toks = <<>> THEN "" ELSE Head(toks) \o Concat(Tail(toks))

StripPayload(line) == Concat(RStrip(LStrip(Tail(line))))

\* The exceptions the parser's except clause names.
ParserCatches(e) == e.type \in {"KeyError", "JSONDecodeError"}

\* obj["choices"][0]["delta"], then delta.get("content")
DeltaContent(obj) ==
    LET choices == Subscript(obj, "choices") IN
    IF ~choices.ok THEN choices ELSE
    LET first == Index0(choices.val) IN
    IF ~first.ok THEN first ELSE
    LET delta == Subscript(first.val, "delta") IN
    IF ~delta.ok THEN delta ELSE
    Get(delta.val, "content", PyNone)

\* One turn of the loop over resp.iter_lines(): what the body does with `raw`.
\*   continue / break / yield text / raise exc
ParseLine(raw) ==
    IF raw = <<>> THEN [exc |-> NoExc, text |-> "", act |-> "continue"] ELSE
    LET line == Decode(raw) IN
    IF ~line.ok THEN [exc |-> line.exc, text |-> "", act |-> "raise"] ELSE
    IF ~StartsWithData(line.val) THEN [exc |-> NoExc, text |-> "", act |-> "continue"] ELSE
    LET data == StripPayload(line.val) IN
    IF data = "[DONE]" THEN [exc |-> NoExc, text |-> "", act |-> "break"] ELSE
    LET obj == json_loads(data)
        text == IF obj.ok THEN DeltaContent(obj.val) ELSE obj
    IN  IF ~text.ok
        THEN IF ParserCatches(text.exc)
             THEN [exc |-> NoExc, text |-> "", act |-> "continue"]
             ELSE [exc |-> text.exc, text |-> "", act |-> "raise"]
        ELSE IF text.val.t # "None"
             THEN [exc |-> NoExc, text |-> text.val.s, act |-> "yield"]
             ELSE [exc |-> NoExc, text |-> "", act |-> "continue"]

\* The lines of the wire.
LineBlank == << >>
LineKeepAlive == <<": keep-alive">>
LineA == <<DataMarker, TextA>>
LineB == <<DataMarker, " ", TextB, " ">>
LineDone == <<DataMarker, "[DONE]">>
LineNotJson == <<DataMarker, TextNotJson>>
LineNoChoices == <<DataMarker, TextNoChoices>>
LineEmptyChoices == <<DataMarker, TextEmptyChoices>>
LineNoDelta == <<DataMarker, TextNoDelta>>
LineNoContent == <<DataMarker, TextNoContent>>
LineNumber == <<DataMarker, TextNumber>>
LineBadBytes == <<BadBytes>>

WireLines ==
    {LineBlank, LineBadBytes, LineKeepAlive, LineNumber, LineA, LineNoChoices,
     LineEmptyChoices, LineNoDelta, LineNoContent, LineNotJson, LineDone, LineB}

\* Every transcript of at most n lines over the alphabet L.
Transcripts(L, n) == UNION {[1..k -> L] : k \in 0..n}

(***************************************************************************)
(* The scraping service.  A request ends in a reply (status, body) or in a *)
(* transport fault.                                                        *)
(***************************************************************************)
Reply(status, body) == [status |-> status, body |-> body, net |-> "ok"]
Timeout == [status |-> 0, body |-> "", net |-> "timeout"]

\* requests.post(...) followed by resp.raise_for_status(): the body, or the fault.
Fetch(o) ==
    IF o.net # "ok"
    THEN Raises(Exc("ReadTimeout", "Read timed out. (read timeout=30)"))
    ELSE IF o.status >= 400 /\ o.status < 600
         THEN Raises(Exc("HTTPError", ToString(o.status) \o " Error for url"))
         ELSE Ok(PyStr(o.body))

\* Bodies of the scraping service.
PageJson == "{\"title\":\"Example\",\"elementMap\":[..],\"viewport\":{..},\"meta\":{..}}"
ContentJson == "{\"data\":[{\"selector\":\"style\",..},{\"selector\":\"head\",..},{\"selector\":\"style\",..}]}"
HtmlErrorPage == "<html>Bad Gateway</html>"
PngViewport == "\\x89PNG:viewport"
PngFullPage == "\\x89PNG:fullpage"
NoBytes == ""

PageContext ==
    PyDict([title |-> PyStr("Example"),
            elementMap |-> PyList(<<PyDict([tagName |-> PyStr("h1")]),
                                    PyDict([tagName |-> PyStr("p")])>>),
            viewport |-> PyDict([width |-> PyInt(1440), height |-> PyInt(900)]),
            meta |-> PyDict([description |-> PyStr(""), keywords |-> PyStr("")])])

ContentDoc ==
    PyDict([data |-> PyList(<<
        PyDict([text |-> PyStr("a{}"), selector |-> PyStr("style")]),
        PyDict([text |-> PyStr("Example"), selector |-> PyStr("head")]),
        PyDict([text |-> PyStr("b{}"), selector |-> PyStr("style")])>>)])

\* resp.json()
resp_json(body) ==
    CASE body = PageJson -> Ok(PageContext)
      [] body = ContentJson -> Ok(ContentDoc)
      [] OTHER -> Raises(Exc("JSONDecodeError", "Expecting value: line 1 column 1 (char 0)"))

\* base64.b64encode(content).decode()
b64encode(content) ==
    CASE content = NoBytes -> ""
      [] content = PngViewport -> "iVBORw0KGgpWSUVX"
      [] content = PngFullPage -> "iVBORw0KGgpGVUxM"

ErrorDict(message) == PyDict([error |-> PyStr(message)])

\* extract_design_context: the decoded page context, or the error-shaped result.
design_context_of(o) ==
    LET got == Fetch(o)
        doc == IF got.ok THEN resp_json(got.val.s) ELSE got
    IN  IF doc.ok
        THEN doc.val
        ELSE ErrorDict("Failed to extract design context: " \o StrExc(doc.exc))

\* The texts of the items selected by "style", in response order.
RECURSIVE css_content(_)
css_content(items) ==
    IF items = <<>> THEN <<>>
    ELSE LET item == Head(items)
             sel == Get(item, "selector", PyNone).val
         IN  IF sel = PyStr("style")
             THEN <<Get(item, "text", PyStr("")).val.s>> \o css_content(Tail(items))
             ELSE css_content(Tail(items))

\* "\n".join(parts)
RECURSIVE JoinLines(_)
JoinLines(parts) ==
    IF parts = <<>> THEN ""
    ELSE IF Len(parts) = 1 THEN Head(parts)
    ELSE Head(parts) \o "\n" \o JoinLines(Tail(parts))

\* extract_dom_structure: html and extracted_css, or the error-shaped result.
dom_structure_of(o) ==
    LET got == Fetch(o)
        doc == IF got.ok THEN resp_json(got.val.s) ELSE got
    IN  IF doc.ok
        THEN LET css == IF "data" \in DOMAIN doc.val.fields
                        THEN css_content(doc.val.fields.data.items)
                        ELSE <<>>
             IN  PyDict([html |-> doc.val, extracted_css |-> PyStr(JoinLines(css))])
        ELSE ErrorDict("Failed to extract DOM: " \o StrExc(doc.exc))

\* A loop turn that swallows the failure and stores an empty capture instead.
screenshot_of_swallowed(o) ==
    LET got == Fetch(o)
    IN  IF got.ok THEN b64encode(got.val.s) ELSE ""

\* One turn of the loop of capture_responsive_views: the value stored under the device.
screenshot_of(o) ==
    LET got == Fetch(o)
    IN  IF got.ok THEN b64encode(got.val.s) ELSE "Error: " \o StrExc(got.exc)

\* The viewports, in the order the loop visits them.
Devices == <<"mobile", "tablet", "desktop">>

(***************************************************************************)
(* Caller-supplied injection directives.  An Optional[List[Dict]] is None  *)
(* or a list; a directive maps attribute names to strings.                 *)
(***************************************************************************)
None == [items |-> <<>>, none |-> TRUE]
Some(items) == [items |-> items, none |-> FALSE]

\* Truth value of an Optional[list]: None and [] are falsy.
Truthy(opt) == ~opt.none /\ opt.items # <<>>

\* tag and any(tag.values())
KeepTag(tag) == DOMAIN tag # {} /\ \E k \in DOMAIN tag : tag[k] # ""

\* [tag for tag in tags if tag and any(tag.values())]
RECURSIVE FilterTags(_)
FilterTags(tags) ==
    IF tags = <<>> THEN <<>>
    ELSE IF KeepTag(Head(tags))
         THEN <<Head(tags)>> \o FilterTags(Tail(tags))
         ELSE FilterTags(Tail(tags))

\* The filtering at the top of clone_site_enhanced.
FilterOption(opt) == IF Truthy(opt) THEN Some(FilterTags(opt.items)) ELSE opt

\* `x or None`
OrNone(opt) == IF Truthy(opt) THEN opt ELSE None

TagEmpty == [k \in {} |-> ""]
TagAllFalsy == [content |-> "", url |-> ""]
TagUrl == [url |-> "https://cdn.example/x.js"]
TagMixed == [content |-> "body{margin:0}", url |-> ""]
Tags == {TagEmpty, TagUrl, TagAllFalsy, TagMixed}

TagLists == {None} \cup {Some(l) : l \in Transcripts(Tags, MaxTags)}
AllBodies == [script : TagLists, style : TagLists]

\* The JSON body grab_screenshot posts: addScriptTag / addStyleTag only when truthy.
grab_payload(script, style) ==
    [addScriptTag |-> IF Truthy(script) THEN script ELSE None,
     addStyleTag |-> IF Truthy(style) THEN style ELSE None]

\* grab_screenshot: the PNG bytes, or the fault (nothing is caught here).
grab_screenshot(o) == Fetch(o)

(***************************************************************************)
(* State of one request.                                                   *)
(***************************************************************************)
VARIABLES
    mode,            \* "idle", or the endpoint serving: "analyze", "clone", "complete"
    pc,              \* where the handler (or its generator) stands
    connected,       \* the caller is still connected
    body,            \* the request body as sent: add_script_tag, add_style_tag
    add_script_tag,  \* the handler's variable of that name
    add_style_tag,
    design_context,
    dom_structure,
    screenshots,     \* device -> str, for the devices captured so far
    issued,          \* remote request -> how often it was issued
    failed,          \* the remote requests that ended in a fault
    grab,            \* the call of grab_screenshot, once made
    png_b64,
    payload,         \* the chat-completion request, once assembled
    resp,            \* the connection to the model provider
    yielded,         \* what stream_clone_html_enhanced has yielded
    sent,            \* what generator() has yielded to the StreamingResponse
    html_parts,
    raised,          \* the exception that left the pipeline, and how much was sent before
    escaped,         \* an exception left the endpoint's own handler uncaught
    response         \* the HTTP response of /analyze and /clone-complete

vars == <<mode, pc, connected, body, add_script_tag, add_style_tag, design_context,
          dom_structure, screenshots, issued, failed, grab, png_b64, payload, resp,
          yielded, sent, html_parts, raised, escaped, response>>

inputVars == <<body, add_script_tag, add_style_tag>>
extractVars == <<design_context, dom_structure, screenshots>>
outVars == <<yielded, sent, html_parts>>
endVars == <<raised, escaped, response>>

Requests == {"content", "mobile", "tablet", "desktop", "function", "screenshot", "chat"}

NoResp == [text |-> "", status |-> 0, state |-> "none", lines |-> <<>>, pos |-> 0]
NoGrab == [add_script_tag |-> None, add_style_tag |-> None, called |-> FALSE,
           json |-> grab_payload(None, None)]
NoPayload == [title |-> PyNone, width |-> PyNone, height |-> PyNone,
              assembled |-> FALSE, element_count |-> PyNone, image |-> ""]
NoRaise == [exc |-> NoExc, k |-> 0, flag |-> FALSE]
NoResponse == [detail |-> "", status |-> 0, html |-> "", keys |-> {}]

Init ==
    /\ mode = "idle"
    /\ pc = "idle"
    /\ connected = TRUE
    /\ body = [script |-> None, style |-> None]
    /\ add_script_tag = None
    /\ add_style_tag = None
    /\ design_context = Unset
    /\ dom_structure = Unset
    /\ screenshots = << >>
    /\ issued = [r \in Requests |-> 0]
    /\ failed = {}
    /\ grab = NoGrab
    /\ png_b64 = ""
    /\ payload = NoPayload
    /\ resp = NoResp
    /\ yielded = << >>
    /\ sent = << >>
    /\ html_parts = << >>
    /\ raised = NoRaise
    /\ escaped = FALSE
    /\ response = NoResponse

Issue(r) == issued' = [issued EXCEPT ![r] = @ + 1]

\* What makes a remote request a failed one: a transport fault, an error status,
\* or (where JSON is expected) a body that is no JSON document.
Faulty(o) == o.net # "ok" \/ o.status >= 400
Undecodable(o) == o.body \notin {PageJson, ContentJson}
Fail(r, bad) == failed' = IF bad THEN failed \cup {r} ELSE failed

(***************************************************************************)
(* The endpoints' entry.                                                   *)
(***************************************************************************)
\* POST /analyze
analyze_website ==
    /\ pc = "idle"
    /\ mode' = "analyze"
    /\ pc' = "design"
    /\ UNCHANGED <<connected, inputVars, extractVars, issued, failed, grab, png_b64,
                   payload, resp, outVars, endVars>>

\* POST /clone: filters the directives, then hands generator() to the response.
clone_site_enhanced(Bodies) ==
    /\ pc = "idle"
    /\ \E b \in Bodies :
          /\ body' = b
          /\ add_script_tag' = FilterOption(b.script)
          /\ add_style_tag' = FilterOption(b.style)
    /\ mode' = "clone"
    /\ pc' = "design"
    /\ UNCHANGED <<connected, extractVars, issued, failed, grab, png_b64, payload, resp,
                   outVars, endVars>>

\* POST /clone-complete
clone_site_complete(Bodies) ==
    /\ pc = "idle"
    /\ \E b \in Bodies :
          /\ body' = b
          /\ add_script_tag' = b.script
          /\ add_style_tag' = b.style
    /\ mode' = "complete"
    /\ pc' = "design"
    /\ UNCHANGED <<connected, extractVars, issued, failed, grab, png_b64, payload, resp,
                   outVars, endVars>>

(***************************************************************************)
(* Extraction: three calls, one after the other, in every endpoint.        *)
(***************************************************************************)
extract_design_context(Outcomes) ==
    /\ pc = "design"
    /\ \E o \in Outcomes :
          /\ design_context' = design_context_of(o)
          /\ Issue("function")
          /\ Fail("function", Faulty(o) \/ Undecodable(o))
    /\ pc' = "dom"
    /\ UNCHANGED <<mode, connected, inputVars, dom_structure, screenshots, grab, png_b64,
                   payload, resp, outVars, endVars>>

extract_dom_structure(Outcomes) ==
    /\ pc = "dom"
    /\ \E o \in Outcomes :
          /\ dom_structure' = dom_structure_of(o)
          /\ Issue("content")
          /\ Fail("content", Faulty(o) \/ Undecodable(o))
    /\ pc' = "views"
    /\ UNCHANGED <<mode, connected, inputVars, design_context, screenshots, grab, png_b64,
                   payload, resp, outVars, endVars>>

\* capture_responsive_views, one viewport per step; after the third it returns.
capture_responsive_views(Outcomes) ==
    /\ pc = "views"
    /\ LET device == Devices[Cardinality(DOMAIN screenshots) + 1] IN
       \E o \in Outcomes :
          /\ screenshots' = [d \in DOMAIN screenshots \cup {device} |->
                               IF d = device THEN screenshot_of(o) ELSE screenshots[d]]
          /\ Issue(device)
          /\ Fail(device, Faulty(o))
    /\ pc' = IF Cardinality(DOMAIN screenshots) + 1 < Len(Devices)
             THEN "views"
             ELSE IF mode = "analyze" THEN "return" ELSE "screenshot"
    /\ UNCHANGED <<mode, connected, inputVars, design_context, dom_structure, grab,
                   png_b64, payload, resp, outVars, endVars>>

\* /analyze answers with the three artifacts.
analyze_return ==
    /\ pc = "return"
    /\ mode = "analyze"
    /\ response' = [NoResponse EXCEPT !.status = 200,
                       !.keys = {"url", "design_context", "dom_structure", "screenshots"}]
    /\ pc' = "done"
    /\ UNCHANGED <<mode, connected, inputVars, extractVars, issued, failed, grab, png_b64,
                   payload, resp, outVars, raised, escaped>>

(***************************************************************************)
(* Where exceptions end: the try blocks of the two clone endpoints.        *)
(***************************************************************************)
\* Handlers that catch only what the transport raises.
GeneratorCatchesTransport(e) == e.type \in {"ConnectionError", "HTTPException"}
CompleteCatchesTransport(e) == e.type \in {"ConnectionError", "HTTPException"}

\* `except Exception` of generator() and of clone_site_complete
GeneratorCatches(e) == e.type \notin BaseExceptionOnly
CompleteCatches(e) == e.type \notin BaseExceptionOnly

\* The chunk generator() emits for a caught exception.
Diagnostic(e) == "<!-- Error: " \o StrExc(e) \o " -->"

\* Exception e leaves stream_clone_html_enhanced and reaches the endpoint.
Propagate(e) ==
    /\ raised' = [exc |-> e, k |-> Len(sent), flag |-> TRUE]
    /\ IF mode = "clone"
       THEN IF GeneratorCatches(e)
            THEN /\ sent' = Append(sent, Diagnostic(e))
                 /\ pc' = "diagnostic"
                 /\ UNCHANGED <<escaped, response>>
            ELSE /\ escaped' = TRUE
                 /\ pc' = "done"
                 /\ UNCHANGED <<sent, response>>
       ELSE IF CompleteCatches(e)
            THEN /\ response' = [NoResponse EXCEPT !.status = 500,
                                    !.detail = "Failed to clone website: " \o StrExc(e)]
                 /\ pc' = "done"
                 /\ UNCHANGED <<sent, escaped>>
            ELSE /\ escaped' = TRUE
                 /\ pc' = "done"
                 /\ UNCHANGED <<sent, response>>

\* The step raised nothing.
NoPropagate == UNCHANGED <<raised, escaped, response>>

(***************************************************************************)
(* stream_clone_html_enhanced                                              *)
(***************************************************************************)
\* The directives each endpoint passes to stream_clone_html_enhanced.
passed_script == IF mode = "clone" THEN OrNone(add_script_tag) ELSE add_script_tag
passed_style == IF mode = "clone" THEN OrNone(add_style_tag) ELSE add_style_tag

\* screenshots.get("desktop", "")
main_screenshot_of(shots) == IF "desktop" \in DOMAIN shots THEN shots["desktop"] ELSE ""

\* Choosing the image: the desktop entry when truthy, a fresh capture otherwise.
main_screenshot(Outcomes) ==
    /\ pc = "screenshot"
    /\ IF main_screenshot_of(screenshots) = ""
       THEN \E o \in Outcomes :
              LET got == grab_screenshot(o) IN
              /\ grab' = [add_script_tag |-> passed_script,
                          add_style_tag |-> passed_style,
                          called |-> TRUE,
                          json |-> grab_payload(passed_script, passed_style)]
              /\ Issue("screenshot")
              /\ Fail("screenshot", Faulty(o))
              /\ IF got.ok
                 THEN /\ png_b64' = b64encode(got.val.s)
                      /\ pc' = "payload"
                      /\ sent' = sent
                      /\ NoPropagate
                 ELSE /\ png_b64' = png_b64
                      /\ Propagate(got.exc)
       ELSE /\ png_b64' = main_screenshot_of(screenshots)
            /\ pc' = "payload"
            /\ sent' = sent
            /\ NoPropagate
            /\ UNCHANGED <<grab, issued, failed>>
    /\ UNCHANGED <<mode, connected, inputVars, extractVars, payload, resp, yielded,
                   html_parts>>

\* The facts the system prompt is templated with, read off design_context.
prompt_facts(ctx) ==
    LET title == Get(ctx, "title", PyStr("Untitled"))
        elems == Get(ctx, "elementMap", PyList(<<>>))
        count == IF elems.ok THEN PyLen(elems.val) ELSE elems
        viewport == Get(ctx, "viewport", PyDict(<<>>))
        width == IF viewport.ok THEN Get(viewport.val, "width", PyNone) ELSE viewport
        height == IF viewport.ok THEN Get(viewport.val, "height", PyNone) ELSE viewport
    IN  IF ~title.ok THEN title
        ELSE IF ~count.ok THEN count
        ELSE IF ~width.ok THEN width
        ELSE Ok([title |-> title.val, width |-> width.val, height |-> height.val,
                 element_count |-> count.val])

\* Assembling the chat-completion request: system prompt, one image, one text.
build_payload ==
    /\ pc = "payload"
    /\ LET facts == prompt_facts(design_context) IN
       IF facts.ok
       THEN /\ payload' = [title |-> facts.val.title,
                           width |-> facts.val.width,
                           height |-> facts.val.height,
                           assembled |-> TRUE,
                           element_count |-> facts.val.element_count,
                           image |-> "data:image/png;base64," \o png_b64]
            /\ pc' = "open"
            /\ sent' = sent
            /\ NoPropagate
       ELSE /\ payload' = payload
            /\ Propagate(facts.exc)
    /\ UNCHANGED <<mode, connected, inputVars, extractVars, issued, failed, grab, png_b64,
                   resp, yielded, html_parts>>

\* A failure test that accepts every 2xx status.
StreamOpened2xx(status) == status \in 200..299

\* resp.status_code != 200 is the failure test.
StreamOpened(status) == status = 200

\* requests.post(..., stream=True, timeout=None) and the status check.
open_stream(Replies, Streams) ==
    /\ pc = "open"
    /\ Issue("chat")
    /\ \E o \in Replies :
          /\ Fail("chat", Faulty(o))
          /\ IF o.net # "ok"
             THEN /\ resp' = resp
                  /\ Propagate(Exc("ConnectionError", "Connection aborted."))
             ELSE IF ~StreamOpened(o.status)
             THEN /\ resp' = [text |-> o.body, status |-> o.status, state |-> "closed",
                              lines |-> << >>, pos |-> 0]
                  /\ Propagate(HTTPException(o.status, o.body))
             ELSE /\ \E ls \in Streams :
                       resp' = [text |-> "", status |-> o.status, state |-> "open",
                                lines |-> ls, pos |-> 0]
                  /\ pc' = "read"
                  /\ sent' = sent
                  /\ NoPropagate
    /\ UNCHANGED <<mode, connected, inputVars, extractVars, grab, png_b64, payload,
                   yielded, html_parts>>

Closed(r) == [r EXCEPT !.state = "closed"]

\* One turn of `for raw in resp.iter_lines()`, or the end of the iteration.
iter_lines ==
    /\ pc = "read"
    /\ IF resp.pos < Len(resp.lines)
       THEN LET step == ParseLine(resp.lines[resp.pos + 1])
                read == [resp EXCEPT !.pos = @ + 1]
            IN  CASE step.act = "continue" ->
                        /\ resp' = read
                        /\ UNCHANGED <<pc, yielded, sent>>
                        /\ NoPropagate
                  [] step.act = "break" ->
                        /\ resp' = Closed(read)
                        /\ pc' = "closing_tag"
                        /\ UNCHANGED <<yielded, sent>>
                        /\ NoPropagate
                  [] step.act = "yield" ->
                        /\ resp' = read
                        /\ yielded' = Append(yielded, step.text)
                        /\ sent' = IF mode = "clone" THEN Append(sent, step.text) ELSE sent
                        /\ pc' = "yielded"
                        /\ NoPropagate
                  [] step.act = "raise" ->
                        /\ resp' = Closed(read)
                        /\ yielded' = yielded
                        /\ Propagate(step.exc)
       ELSE /\ resp' = Closed(resp)
            /\ pc' = "closing_tag"
            /\ UNCHANGED <<yielded, sent>>
            /\ NoPropagate
    /\ UNCHANGED <<mode, connected, inputVars, extractVars, issued, failed, grab, png_b64,
                   payload, html_parts>>

\* The transport breaks while the body is being read.
connection_reset ==
    /\ pc = "read"
    /\ resp.pos < Len(resp.lines)
    /\ resp' = Closed(resp)
    /\ Propagate(Exc("ChunkedEncodingError", "Connection broken: IncompleteRead"))
    /\ UNCHANGED <<mode, connected, inputVars, extractVars, issued, failed, grab, png_b64,
                   payload, yielded, html_parts>>

ClosingTag == "\n</html>"

\* The yield after the with block.
yield_closing_tag ==
    /\ pc = "closing_tag"
    /\ yielded' = Append(yielded, ClosingTag)
    /\ sent' = IF mode = "clone" THEN Append(sent, ClosingTag) ELSE sent
    /\ pc' = "yielded_last"
    /\ UNCHANGED <<mode, connected, inputVars, extractVars, issued, failed, grab, png_b64,
                   payload, resp, html_parts, endVars>>

(***************************************************************************)
(* The consumers of the sequence.                                          *)
(***************************************************************************)
Suspended == {"yielded", "diagnostic", "yielded_last"}

\* /clone: the StreamingResponse has written the chunk and asks for the next.
next_chunk ==
    /\ mode = "clone"
    /\ pc \in Suspended
    /\ connected
    /\ pc' = IF pc = "yielded" THEN "read" ELSE "done"
    /\ UNCHANGED <<mode, connected, inputVars, extractVars, issued, failed, grab, png_b64,
                   payload, resp, outVars, endVars>>

\* /clone-complete: the body of the for loop, html_parts.append(chunk).
append_chunk ==
    /\ mode = "complete"
    /\ pc \in {"yielded", "yielded_last"}
    /\ html_parts' = Append(html_parts, yielded[Len(yielded)])
    /\ pc' = IF pc = "yielded" THEN "read" ELSE "join"
    /\ UNCHANGED <<mode, connected, inputVars, extractVars, issued, failed, grab, png_b64,
                   payload, resp, yielded, sent, endVars>>

\* len(<the outcome of a .get>)
LenOf(got) == IF got.ok THEN PyLen(got.val) ELSE got

\* The "analysis" counts of the answer, read off design_context.
analysis_of(ctx) ==
    LET colors == LenOf(Get(ctx, "colors", PyList(<<>>)))
        fonts == LenOf(Get(ctx, "fonts", PyList(<<>>)))
        text == Get(ctx, "textContent", PyDict(<<>>))
        headings == IF text.ok THEN LenOf(Get(text.val, "headings", PyList(<<>>))) ELSE text
        images == LenOf(Get(ctx, "images", PyList(<<>>)))
    IN  IF ~colors.ok THEN colors
        ELSE IF ~fonts.ok THEN fonts
        ELSE IF ~headings.ok THEN headings
        ELSE IF ~images.ok THEN images
        ELSE Ok(PyList(<<colors.val, fonts.val, headings.val, images.val>>))

\* /clone-complete: "".join(html_parts), the summary counts, and the answer.
complete_return ==
    /\ mode = "complete"
    /\ pc = "join"
    /\ LET analysis == analysis_of(design_context) IN
       IF analysis.ok
       THEN /\ response' = [NoResponse EXCEPT !.status = 200, !.html = Concat(html_parts),
                               !.keys = {"html", "design_context", "dom_structure",
                                         "screenshots", "analysis"}]
            /\ pc' = "done"
            /\ UNCHANGED <<sent, raised, escaped>>
       ELSE Propagate(analysis.exc)
    /\ UNCHANGED <<mode, connected, inputVars, extractVars, issued, failed, grab, png_b64,
                   payload, resp, yielded, html_parts>>

\* The caller of /clone goes away.
caller_disconnect ==
    /\ mode = "clone"
    /\ connected
    /\ pc \notin {"done", "closed"}
    /\ connected' = FALSE
    /\ UNCHANGED <<mode, pc, inputVars, extractVars, issued, failed, grab, png_b64,
                   payload, resp, outVars, endVars>>

\* The abandoned generator is closed where it is suspended: GeneratorExit at the
\* yield, which `except Exception` lets pass and on which the with block closes resp.
generator_close ==
    /\ mode = "clone"
    /\ ~connected
    /\ pc \in Suspended
    /\ resp' = IF resp.state = "open" THEN Closed(resp) ELSE resp
    /\ pc' = "closed"
    /\ UNCHANGED <<mode, connected, inputVars, extractVars, issued, failed, grab, png_b64,
                   payload, outVars, endVars>>

(***************************************************************************)
(* Specifications: the same program against three environments.            *)
(***************************************************************************)
NoBody == [script |-> None, style |-> None]

\* Spec: all three endpoints, every combination of extraction failures, a
\* handful of upstream transcripts.
PipeBodies == {NoBody, [script |-> Some(<<TagEmpty, TagUrl>>), style |-> Some(<<TagAllFalsy>>)]}
PageOutcomes == {Timeout, Reply(200, PageJson), Reply(200, HtmlErrorPage)}
ContentOutcomes == {Timeout, Reply(200, ContentJson), Reply(502, HtmlErrorPage)}
ViewOutcomes == {Reply(200, NoBytes), Reply(200, PngViewport), Reply(500, HtmlErrorPage)}
FallbackOutcomes == {Timeout, Reply(200, PngFullPage)}
ModelReplies ==
    {Timeout, Reply(200, ""), Reply(202, "{\"status\":\"pending\"}"),
     Reply(500, "Internal Server Error")}
PipeStreams ==
    {<< >>, <<LineA, LineDone>>, <<LineA, LineB>>, <<LineDone, LineA>>,
     <<LineA, LineEmptyChoices, LineB>>}

Next ==
    \/ analyze_website
    \/ clone_site_enhanced(PipeBodies)
    \/ clone_site_complete(PipeBodies)
    \/ extract_design_context(PageOutcomes)
    \/ extract_dom_structure(ContentOutcomes)
    \/ capture_responsive_views(ViewOutcomes)
    \/ analyze_return
    \/ main_screenshot(FallbackOutcomes)
    \/ build_payload
    \/ open_stream(ModelReplies, PipeStreams)
    \/ iter_lines
    \/ connection_reset
    \/ yield_closing_tag
    \/ next_chunk
    \/ append_chunk
    \/ complete_return
    \/ caller_disconnect
    \/ generator_close

Spec == Init /\ [][Next]_vars

\* SpecStream: the event-stream parser against every transcript of at most
\* MaxLines lines, behind an extraction that succeeds.
NextStream ==
    \/ clone_site_enhanced({NoBody})
    \/ clone_site_complete({NoBody})
    \/ extract_design_context({Reply(200, PageJson)})
    \/ extract_dom_structure({Reply(200, ContentJson)})
    \/ capture_responsive_views({Reply(200, PngViewport)})
    \/ main_screenshot(FallbackOutcomes)
    \/ build_payload
    \/ open_stream(ModelReplies, Transcripts(WireLines, MaxLines))
    \/ iter_lines
    \/ connection_reset
    \/ yield_closing_tag
    \/ next_chunk
    \/ append_chunk
    \/ complete_return

SpecStream == Init /\ [][NextStream]_vars

\* SpecTags: both clone endpoints against every request body of at most MaxTags
\* directives per list, with a desktop capture that may come back empty.
NextTags ==
    \/ clone_site_enhanced(AllBodies)
    \/ clone_site_complete(AllBodies)
    \/ extract_design_context({Reply(200, PageJson)})
    \/ extract_dom_structure({Reply(200, ContentJson)})
    \/ capture_responsive_views({Reply(200, PngViewport), Reply(200, NoBytes)})
    \/ main_screenshot({Reply(200, PngFullPage)})
    \/ build_payload
    \/ open_stream({Reply(200, "")}, {<<LineDone>>})
    \/ iter_lines
    \/ yield_closing_tag
    \/ next_chunk
    \/ append_chunk
    \/ complete_return

SpecTags == Init /\ [][NextTags]_vars

(***************************************************************************)
(* Properties.                                                             *)
(***************************************************************************)
\* What a transcript should produce: the content of each well-formed data line
\* before the first [DONE], in order.
RECURSIVE ExpectedIncrements(_)
ExpectedIncrements(lines) ==
    IF lines = <<>> \/ Head(lines) = LineDone THEN <<>>
    ELSE (CASE Head(lines) = LineA -> <<"A">>
            [] Head(lines) = LineB -> <<"B">>
            [] OTHER -> <<>>) \o ExpectedIncrements(Tail(lines))

\* The stream was opened with success and the transport did not break.
StreamIntact ==
    /\ resp.state # "none"
    /\ resp.status = 200
    /\ raised.exc.type # "ChunkedEncodingError"

\* stream_clone_html_enhanced has yielded its last element.
StreamEnded == pc \in {"yielded_last", "join", "done", "closed"} /\ ~raised.flag

\* C1: after a successful open, for every finite sequence of upstream lines the
\* generator yields exactly the contents of the well-formed data lines before the
\* first [DONE] (or before the close), in arrival order, then exactly one final
\* element equal to "</html>", and terminates without raising.
C1_YieldsContentsThenClosingTag ==
    StreamIntact =>
        /\ ~raised.flag
        /\ IF StreamEnded
           THEN yielded = ExpectedIncrements(resp.lines) \o <<"</html>">>
           ELSE yielded = ExpectedIncrements(SubSeq(resp.lines, 1, resp.pos))

\* Data lines whose payload is malformed JSON or lacks a usable
\* choices[0].delta.content.
UnusableDataLines ==
    {LineNumber, LineNoChoices, LineEmptyChoices, LineNoDelta, LineNoContent, LineNotJson}

\* The increments yielded so far, without the final closing tag.
Increments ==
    IF yielded # <<>> /\ pc \in {"yielded_last", "join", "done", "closed"}
          /\ yielded[Len(yielded)] = ClosingTag
    THEN SubSeq(yielded, 1, Len(yielded) - 1)
    ELSE yielded

\* C2: a data line with malformed JSON or without the expected field is skipped
\* silently: reading it raises nothing and ends nothing, it yields nothing, and the
\* valid data lines around it are all yielded.
C2_UnusableLinesSkipped ==
    (StreamIntact /\ resp.pos > 0 /\ resp.lines[resp.pos] \in UnusableDataLines) =>
        /\ ~raised.flag
        /\ Increments = ExpectedIncrements(SubSeq(resp.lines, 1, resp.pos))

\* Opening the stream failed with the error built from the response.
OpenFailed == raised.flag /\ raised.exc.type = "HTTPException" /\ resp.state = "closed"
               /\ resp.lines = << >> /\ resp.pos = 0

\* C3 as stated: the open fails, with status and body in the error and nothing
\* yielded, exactly when the status is not a 2xx status.
C3_FailsExactlyWhenNot2xx ==
    resp.state # "none" =>
        /\ OpenFailed <=> ~(resp.status \in 200..299)
        /\ OpenFailed => /\ yielded = << >>
                         /\ raised.exc.status_code = resp.status
                         /\ raised.exc.detail = resp.text

\* C3 as amended: the open fails, with status and body in the error and nothing
\* yielded, exactly when the status is not 200; a 2xx status other than 200 fails too.
C3_FailsExactlyWhenNot200 ==
    resp.state # "none" =>
        /\ OpenFailed <=> resp.status # 200
        /\ OpenFailed => /\ yielded = << >>
                         /\ raised.exc.status_code = resp.status
                         /\ raised.exc.detail = resp.text
        /\ resp.status = 200 => raised.exc.type # "HTTPException"

C3_Witness ==
    /\ resp.status = 202
    /\ OpenFailed
    /\ yielded = << >>
    /\ raised.exc.status_code = 202

\* C4: in /clone, an exception raised at any step leaves the outbound stream as the
\* increments emitted so far followed by exactly one diagnostic chunk, which is
\* last; nothing escapes generator(), and the generator then only ends.
C4_ExceptionBecomesTrailingDiagnostic ==
    mode = "clone" =>
        /\ ~escaped
        /\ raised.flag =>
              /\ sent = Append(SubSeq(sent, 1, raised.k), Diagnostic(raised.exc))
              /\ SubSeq(sent, 1, raised.k) = yielded
              /\ \A i \in 1..raised.k : sent[i] # Diagnostic(raised.exc)
              /\ pc \in {"diagnostic", "done", "closed"}
              /\ resp.state # "open"
              /\ response = NoResponse

C4_Witness ==
    /\ mode = "clone"
    /\ raised.flag
    /\ raised.exc.type = "IndexError"
    /\ raised.k = 1
    /\ sent = <<"A", Diagnostic(raised.exc)>>
    /\ pc = "done"

\* C5: /clone-complete ends either with a 200 whose html is the concatenation of
\* every increment of the exhausted stream, closing tag included, or with a single
\* 500 carrying the message and none of the output collected so far.
C5_CompleteIsAllOrNothing ==
    mode = "complete" =>
        /\ ~escaped
        /\ pc # "done" => response = NoResponse
        /\ pc = "done" =>
              \/ /\ response.status = 200
                 /\ ~raised.flag
                 /\ resp.state = "closed"
                 /\ yielded = ExpectedIncrements(resp.lines) \o <<ClosingTag>>
                 /\ response.html = Concat(yielded)
              \/ /\ response.status = 500
                 /\ raised.flag
                 /\ response.html = ""
                 /\ "html" \notin response.keys
                 /\ response.detail = "Failed to clone website: " \o StrExc(raised.exc)

C5_Witness ==
    /\ mode = "complete"
    /\ pc = "done"
    /\ response.status = 500
    /\ html_parts = <<"A">>
    /\ response.html = ""

\* The base64 texts of PNG captures.
Base64Png == {b64encode(PngViewport), b64encode(PngFullPage)}

\* C6: the image sent to the model is always a base64 PNG: the desktop screenshot
\* when that capture produced one, a fresh fallback screenshot otherwise; the error
\* string stored under "desktop" is never the image.
C6_ImageIsAlwaysPng ==
    payload.assembled =>
        /\ payload.image \in {"data:image/png;base64," \o p : p \in Base64Png}
        /\ IF "desktop" \notin failed /\ screenshots["desktop"] # ""
           THEN png_b64 = screenshots["desktop"] /\ ~grab.called
           ELSE png_b64 = b64encode(PngFullPage) /\ grab.called

\* A directive that must not reach the screenshot call.
Droppable(tag) == DOMAIN tag = {} \/ \A k \in DOMAIN tag : tag[k] = ""
Forwardable(tag) == ~Droppable(tag)

\* C7: in /clone and in /clone-complete alike, the fallback screenshot call receives
\* exactly the directives that are neither empty nor all-falsy, in their order.
C7_OnlyUsableDirectivesForwarded ==
    grab.called =>
        /\ grab.add_script_tag.items = SelectSeq(body.script.items, Forwardable)
        /\ grab.add_style_tag.items = SelectSeq(body.style.items, Forwardable)
        /\ grab.json.addScriptTag.items = SelectSeq(body.script.items, Forwardable)
        /\ grab.json.addStyleTag.items = SelectSeq(body.style.items, Forwardable)

Extraction == {"content", "mobile", "tablet", "desktop", "function"}
ExtractionDone == pc \notin {"idle", "design", "dom", "views"}
ErrorShaped(ctx) == "error" \in DOMAIN ctx.fields
ValidCapture == {b64encode(NoBytes), b64encode(PngViewport)}

\* C8: whatever fails among the five extraction requests, each is issued exactly
\* once, the screenshot set has exactly the keys mobile, tablet and desktop, and a
\* result is error-shaped exactly when its own request failed.
C8_ExtractionCallsAreIndependent ==
    /\ \A r \in Extraction : issued[r] <= 1
    /\ ExtractionDone =>
          /\ \A r \in Extraction : issued[r] = 1
          /\ DOMAIN screenshots = {"mobile", "tablet", "desktop"}
          /\ ErrorShaped(design_context) <=> "function" \in failed
          /\ ErrorShaped(dom_structure) <=> "content" \in failed
          /\ \A d \in DOMAIN screenshots :
                /\ d \in failed <=> screenshots[d] \notin ValidCapture
                /\ d \in failed => screenshots[d] \in
                      {"Error: 500 Error for url", "Error: Read timed out. (read timeout=30)"}

C8_Witness ==
    /\ ExtractionDone
    /\ failed = {"function", "tablet"}
    /\ screenshots["mobile"] = b64encode(PngViewport)
    /\ screenshots["desktop"] = b64encode(PngViewport)
    /\ screenshots["tablet"] = "Error: 500 Error for url"
    /\ ~ErrorShaped(dom_structure)

\* C9: once the caller of /clone has disconnected, no step reads a further upstream
\* line, wherever the generator stood when the caller left.
C9_NoReadAfterDisconnect ==
    [][(mode = "clone" /\ ~connected) => resp'.pos = resp.pos]_vars

\* C10: when extract_design_context returned an error-shaped result, its payload is
\* not read for the prompt and no model request is assembled from it.
C10_ErrorContextNeverUsed ==
    (design_context # Unset /\ ErrorShaped(design_context)) =>
        /\ ~payload.assembled
        /\ issued["chat"] = 0

====
